---- MODULE Spec2Model ----
(***************************************************************************)
(* Model of agent/web_scraper_agent.py: the EmailScraper class (email      *)
(* extraction, URL prioritisation, single-page signal collection, the      *)
(* per-site crawl loop and the result classification).                     *)
(*                                                                         *)
(* Python strings are TLA+ strings; a character is a string of length 1.   *)
(***************************************************************************)
EXTENDS Integers, Sequences, FiniteSets, TLC

(***************************************************************************)
(* Characters and the str methods the code uses                            *)
(***************************************************************************)

Ch(s, i) == SubSeq(s, i, i)

\* the printable ASCII characters \x20..\x7e in code-point order; the backquote
\* \x60 cannot be written in a TLA+ string and is not among the characters
\* modelled
AsciiStr ==
  " !\"#$%&'()*+,-./0123456789:;<=>?@ABCDEFGHIJKLMNOPQRSTUVWXYZ[\\]^_abcdefghijklmnopqrstuvwxyz{|}~"

Idx(c) == CHOOSE i \in 1..Len(AsciiStr) : Ch(AsciiStr, i) = c

\* a regex character range [lo-hi]
Range(lo, hi) == { Ch(AsciiStr, i) : i \in Idx(lo)..Idx(hi) }

Printable == Range(" ", "~")
LowerAZ == Range("a", "z")
UpperAZ == Range("A", "Z")
Digit09 == Range("0", "9")
Alpha == LowerAZ \cup UpperAZ
Alnum == Alpha \cup Digit09
\* \s of the re module, restricted to the characters modelled
Whitespace == {" ", "\t", "\n", "\r"}

\* str.lower() / str.upper() of one character
LowerMap == [c \in UpperAZ |-> Ch(AsciiStr, Idx(c) - Idx("A") + Idx("a"))]
UpperMap == [c \in LowerAZ |-> Ch(AsciiStr, Idx(c) - Idx("a") + Idx("A"))]
LowerCh(c) == IF c \in UpperAZ THEN LowerMap[c] ELSE c
UpperCh(c) == IF c \in LowerAZ THEN UpperMap[c] ELSE c

SetMin(S) == CHOOSE x \in S : \A y \in S : x <= y
SetMax(S) == CHOOSE x \in S : \A y \in S : y <= x

\* str.lower(), character by character (by halves, to keep the recursion flat)
RECURSIVE StrLower(_)
StrLower(s) ==
  IF Len(s) = 0 THEN ""
  ELSE IF Len(s) = 1 THEN LowerCh(s)
  ELSE LET h == Len(s) \div 2
       IN StrLower(SubSeq(s, 1, h)) \o StrLower(SubSeq(s, h + 1, Len(s)))

\* s.startswith(p)
StartsWith(s, p) == Len(p) <= Len(s) /\ SubSeq(s, 1, Len(p)) = p

\* position of the first occurrence of sub in s at or after i, 0 when none
FindFrom(s, sub, i) ==
  LET at == { j \in i..(Len(s) - Len(sub) + 1) :
                SubSeq(s, j, j + Len(sub) - 1) = sub }
  IN IF at = {} THEN 0 ELSE SetMin(at)

\* sub in s
Contains(s, sub) == FindFrom(s, sub, 1) # 0

\* s.replace(old, new): every non-overlapping occurrence, left to right
RECURSIVE StrReplace(_, _, _)
StrReplace(s, old, new) ==
  LET p == FindFrom(s, old, 1) IN
  IF p = 0 THEN s
  ELSE SubSeq(s, 1, p - 1) \o new
       \o StrReplace(SubSeq(s, p + Len(old), Len(s)), old, new)

\* s.split(sep)[0]
SplitFirst(s, sep) ==
  LET p == FindFrom(s, sep, 1) IN IF p = 0 THEN s ELSE SubSeq(s, 1, p - 1)

\* s.split(sep, 1)[1] (s contains sep)
SplitRest(s, sep) ==
  LET p == FindFrom(s, sep, 1) IN SubSeq(s, p + Len(sep), Len(s))

\* s.split(sep): the list of parts
RECURSIVE StrSplit(_, _)
StrSplit(s, sep) ==
  LET p == FindFrom(s, sep, 1) IN
  IF p = 0 THEN <<s>>
  ELSE <<SubSeq(s, 1, p - 1)>> \o StrSplit(SubSeq(s, p + Len(sep), Len(s)), sep)

\* s.strip()
StrStrip(s) ==
  LET solid == { j \in 1..Len(s) : Ch(s, j) \notin Whitespace }
  IN IF solid = {} THEN "" ELSE SubSeq(s, SetMin(solid), SetMax(solid))

(***************************************************************************)
(* Python's re module, for the operators the patterns of the scraper use.  *)
(* A pattern is a tree of nodes.  Rel gives, for every start position, the *)
(* set of positions at which a match of the node can end.  Every           *)
(* quantifier of the patterns is greedy and the alternatives of their      *)
(* alternations begin with different characters, so the match the          *)
(* backtracking engine returns is, piece by piece, the longest one that    *)
(* lets the rest of the pattern match.                                     *)
(***************************************************************************)

RSet(cs) == [t |-> "set", cs |-> cs]
RLit(c) == RSet({c})
RCat(xs) == [t |-> "cat", xs |-> xs]
RAlt(xs) == [t |-> "alt", xs |-> xs]
\* x* ; the star of a character class is one run of characters
RStar(x) ==
  IF x.t = "set" THEN [t |-> "run", cs |-> x.cs] ELSE [t |-> "star", x |-> x]
RPlus(x) == RCat(<<x, RStar(x)>>)
ROpt(x) == RAlt(<<x, RCat(<< >>)>>)
\* a capturing group at the top level of a pattern
RGroup(x) == [t |-> "group", x |-> x]
REnd == [t |-> "eos"]

\* a literal word
RStr(w) == RCat([k \in 1..Len(w) |-> RLit(Ch(w, k))])

\* does character c match the class cs (ic: re.IGNORECASE)
InClass(c, cs, ic) ==
  c \in cs \/ (ic /\ c \in Alpha /\ (LowerCh(c) \in cs \/ UpperCh(c) \in cs))

\* the end of the longest run of characters of class cs starting at i
RunEnd(s, i, cs, ic) ==
  CHOOSE e \in i..(Len(s) + 1) :
    /\ e = Len(s) + 1 \/ ~ InClass(Ch(s, e), cs, ic)
    /\ \A j \in i..(e - 1) : InClass(Ch(s, j), cs, ic)

Positions(s) == 1..(Len(s) + 1)

\* a then b
Compose(a, b) == [i \in DOMAIN a |-> UNION { b[m] : m \in a[i] }]

\* zero or more times a step of t (t[i] contains i)
RECURSIVE Closure(_)
Closure(t) == LET t2 == Compose(t, t) IN IF t2 = t THEN t ELSE Closure(t2)

RECURSIVE Rel(_, _, _)
Rel(n, s, ic) ==
  CASE n.t = "set" ->
         [i \in Positions(s) |->
            IF i <= Len(s) /\ InClass(Ch(s, i), n.cs, ic) THEN {i + 1} ELSE {}]
    [] n.t = "run" ->
         [i \in Positions(s) |-> i..RunEnd(s, i, n.cs, ic)]
    [] n.t = "cat" ->
         IF Len(n.xs) = 0 THEN [i \in Positions(s) |-> {i}]
         ELSE IF Len(n.xs) = 1 THEN Rel(n.xs[1], s, ic)
         ELSE LET h == Len(n.xs) \div 2
                  a == Rel(RCat(SubSeq(n.xs, 1, h)), s, ic)
                  b == Rel(RCat(SubSeq(n.xs, h + 1, Len(n.xs))), s, ic)
              IN Compose(a, b)
    [] n.t = "alt" ->
         IF Len(n.xs) = 1 THEN Rel(n.xs[1], s, ic)
         ELSE LET h == Len(n.xs) \div 2
                  a == Rel(RAlt(SubSeq(n.xs, 1, h)), s, ic)
                  b == Rel(RAlt(SubSeq(n.xs, h + 1, Len(n.xs))), s, ic)
              IN [i \in Positions(s) |-> a[i] \cup b[i]]
    [] n.t = "star" ->
         LET r == Rel(n.x, s, ic)
         IN Closure([i \in Positions(s) |-> {i} \cup r[i]])
    [] n.t = "group" -> Rel(n.x, s, ic)
    [] n.t = "eos" ->
         \* $ : at the end, or just before a final newline
         [i \in Positions(s) |->
            IF i = Len(s) + 1 \/ (i = Len(s) /\ Ch(s, i) = "\n")
            THEN {i} ELSE {}]

\* re.match(pattern, s): the pattern matches at the start of s
ReMatch(pat, s, ic) == Rel(pat, s, ic)[1] # {}

\* the matches re.findall reports, as spans [from, to): left to right, not
\* overlapping, not empty; ends: the end of the match at every position, 0
\* where the pattern does not match
RECURSIVE SpansFrom(_, _)
SpansFrom(ends, i) ==
  LET starts == { j \in DOMAIN ends : j >= i /\ ends[j] > j }
  IN IF starts = {} THEN << >>
     ELSE LET j == SetMin(starts)
          IN <<[from |-> j, to |-> ends[j]]>> \o SpansFrom(ends, ends[j])

\* the end of the match at every position: the longest, 0 where there is none
MatchEnds(r) == [j \in DOMAIN r |-> IF r[j] = {} THEN 0 ELSE SetMax(r[j])]

FindSpans(pat, s, ic) == SpansFrom(MatchEnds(Rel(pat, s, ic)), 1)

\* the substrings of s at the spans sp
Substrings(s, sp) == [k \in 1..Len(sp) |-> SubSeq(s, sp[k].from, sp[k].to - 1)]

\* re.findall for a pattern without groups: the matched substrings
FindAll(pat, s, ic) == Substrings(s, FindSpans(pat, s, ic))

\* the positions between the pieces of pat.xs in the match that starts at
\* from and ends at to: each piece takes the most it can
RECURSIVE Boundaries(_, _, _, _, _, _)
Boundaries(xs, s, ic, k, from, to) ==
  IF k = Len(xs) THEN <<from, to>>
  ELSE LET here == Rel(xs[k], s, ic)[from]
           after == Rel(RCat(SubSeq(xs, k + 1, Len(xs))), s, ic)
           cut == SetMax({ m \in here : to \in after[m] })
       IN <<from>> \o Boundaries(xs, s, ic, k + 1, cut, to)

\* the pieces of a pattern that are groups, and the piece of the k-th group
GroupPieces(xs) == { k \in DOMAIN xs : xs[k].t = "group" }
GroupAt(groups, k) ==
  CHOOSE g \in groups : Cardinality({ h \in groups : h <= g }) = k

\* the texts of the groups in a match with the piece boundaries bs
GroupTexts(s, groups, bs) ==
  [k \in 1..Cardinality(groups) |->
     SubSeq(s, bs[GroupAt(groups, k)], bs[GroupAt(groups, k) + 1] - 1)]

\* the tuples of the group texts of the matches at the spans sp
GroupTuples(pat, s, ic, sp) ==
  [m \in 1..Len(sp) |->
     GroupTexts(s, GroupPieces(pat.xs),
                Boundaries(pat.xs, s, ic, 1, sp[m].from, sp[m].to))]

\* re.findall for a pattern with groups: the tuples of the group texts
FindAllGroups(pat, s, ic) == GroupTuples(pat, s, ic, FindSpans(pat, s, ic))

(***************************************************************************)
(* EmailScraper.extract_emails_from_text                                   *)
(***************************************************************************)

CharsOf(w) == { Ch(w, i) : i \in 1..Len(w) }

\* [a-zA-Z0-9!#$%&'*+/=?^_`{|}~-]
Atext == Alnum \cup CharsOf("!#$%&'*+/=?^_{|}~-")
\* [\x01-\x08\x0b\x0c\x0e-\x1f\x21\x23-\x5b\x5d-\x7f]
QText == Printable \ {" ", "\"", "\\"}
\* [\x01-\x09\x0b\x0c\x0e-\x7f]
QPairChar == Printable \cup {"\t"}
\* [\x21-\x5a\x53-\x7f]
LiteralChar == Printable \ {" "}

\* [a-zA-Z0-9](?:[a-zA-Z0-9-]*[a-zA-Z0-9])?
DomainLabel ==
  RCat(<<RSet(Alnum),
         ROpt(RCat(<<RStar(RSet(Alnum \cup {"-"})), RSet(Alnum)>>))>>)

\* 25[0-5]|2[0-4][0-9]|[01]?[0-9][0-9]?
OctetAlts ==
  <<RCat(<<RStr("25"), RSet(Range("0", "5"))>>),
    RCat(<<RLit("2"), RSet(Range("0", "4")), RSet(Digit09)>>),
    RCat(<<ROpt(RSet({"0", "1"})), RSet(Digit09), ROpt(RSet(Digit09))>>)>>

\* the pattern of line 48
email_pattern ==
  RCat(<<
    RAlt(<<
      \* atext+(?:\.atext+)*
      RCat(<<RPlus(RSet(Atext)),
             RStar(RCat(<<RLit("."), RPlus(RSet(Atext))>>))>>),
      \* "(?:qtext|\\qpair)*"
      RCat(<<RLit("\""),
             RStar(RAlt(<<RSet(QText),
                          RCat(<<RLit("\\"), RSet(QPairChar)>>)>>)),
             RLit("\"")>>)
    >>),
    RLit("@"),
    RAlt(<<
      \* (?:label\.)+label
      RCat(<<RPlus(RCat(<<DomainLabel, RLit(".")>>)), DomainLabel>>),
      \* \[(?:octet\.){3}(?:octet|tag:content+)\]
      RCat(<<RLit("["),
             RCat(<<RAlt(OctetAlts), RLit(".")>>),
             RCat(<<RAlt(OctetAlts), RLit(".")>>),
             RCat(<<RAlt(OctetAlts), RLit(".")>>),
             RAlt(OctetAlts \o
                  <<RCat(<<RStar(RSet(Alnum \cup {"-"})), RSet(Alnum), RLit(":"),
                           RPlus(RAlt(<<RSet(LiteralChar),
                                        RCat(<<RLit("\\"),
                                               RSet(QPairChar)>>)>>))>>)>>),
             RLit("]")>>)
    >>)
  >>)

\* ^[a-zA-Z0-9][a-zA-Z0-9._-]*@[a-zA-Z0-9][a-zA-Z0-9.-]*\.[a-zA-Z]{2,}$
final_pattern ==
  RCat(<<RSet(Alnum), RStar(RSet(Alnum \cup {".", "_", "-"})),
         RLit("@"),
         RSet(Alnum), RStar(RSet(Alnum \cup {".", "-"})),
         RLit("."),
         RSet(Alpha), RSet(Alpha), RStar(RSet(Alpha)),
         REnd>>)

exclude_domains ==
  {"example.com", "test.com", "domain.com", "email.com",
   "yourcompany", "company.com", "youremail", "placeholder",
   "sampleemail", "wixpress.com", "sentry.io", "w3.org",
   "schema.org", "xmlns.com", "xmlsoap.org"}

MinEmailLen == 6
MaxEmailLen == 254
MaxLocalLen == 64
MinTldLen == 2

\* variant: the placeholder domains are not skipped
KeepsPlaceholders(email) ==
  /\ Contains(email, "@")
  /\ ~ (Len(email) < MinEmailLen \/ Len(email) > MaxEmailLen)
  /\ LET local == SplitFirst(email, "@")
         domain == SplitRest(email, "@")
         domain_parts == StrSplit(domain, ".")
         tld == domain_parts[Len(domain_parts)]
     IN /\ ~ (Len(local) < 1 \/ Len(local) > MaxLocalLen)
        /\ Contains(domain, ".")
        /\ ~ (Len(domain_parts) < 2)
        /\ ~ (Len(tld) < MinTldLen)
  /\ ~ (\/ StartsWith(email, "noreply")
        \/ StartsWith(email, "no-reply")
        \/ StartsWith(email, "donotreply"))
  /\ ReMatch(final_pattern, email, FALSE)

\* the checks of the loop body, lines 56-103, on one lowercased match; TRUE
\* when the loop reaches clean_emails.add
KeepsEmail(email) ==
  /\ Contains(email, "@")
  /\ ~ (Len(email) < MinEmailLen \/ Len(email) > MaxEmailLen)
  /\ LET local == SplitFirst(email, "@")
         domain == SplitRest(email, "@")
         domain_parts == StrSplit(domain, ".")
         tld == domain_parts[Len(domain_parts)]
     IN /\ ~ (Len(local) < 1 \/ Len(local) > MaxLocalLen)
        /\ Contains(domain, ".")
        /\ ~ (Len(domain_parts) < 2)
        /\ ~ (Len(tld) < MinTldLen)
  /\ ~ (\E ex_domain \in exclude_domains : Contains(email, ex_domain))
  /\ ~ (\/ StartsWith(email, "noreply")
        \/ StartsWith(email, "no-reply")
        \/ StartsWith(email, "donotreply"))
  /\ ReMatch(final_pattern, email, FALSE)

\* line 54 for every match of line 50
Lowered(raw_emails) ==
  { StrLower(StrStrip(raw_emails[k])) : k \in 1..Len(raw_emails) }

\* variant: the checks of the loop are made on the match as it stands, and
\* the address is lowercased when it is added
ExtractCheckedBeforeLower(txt) ==
  LET raw_emails == FindAll(email_pattern,
                            StrReplace(StrReplace(txt, "\n", " "), "\r", " "),
                            TRUE)
  IN { StrLower(StrStrip(raw_emails[k])) :
         k \in { j \in 1..Len(raw_emails) : KeepsEmail(StrStrip(raw_emails[j])) } }

extract_emails_from_text(txt) ==
  { email \in Lowered(FindAll(email_pattern,
                              StrReplace(StrReplace(txt, "\n", " "), "\r", " "),
                              TRUE)) :
      KeepsEmail(email) }

(***************************************************************************)
(* urllib.parse.urlparse / urljoin as find_all_internal_links uses them,   *)
(* for URLs without parameters, dot segments or empty path segments        *)
(***************************************************************************)

SchemeChars == Alnum \cup {"+", "-", "."}
uses_relative == {"http", "https", "ftp", "file", ""}

\* the first position at or after i of one of the delimiters, Len(s)+1 if none
FirstDelim(s, i, delims) ==
  LET at == { j \in i..Len(s) : Ch(s, j) \in delims }
  IN IF at = {} THEN Len(s) + 1 ELSE SetMin(at)

\* the position of the colon that ends the scheme of u, 0 when u has none
SchemeEnd(u, c) ==
  IF c > 1 /\ Ch(u, 1) \in Alpha /\ \A k \in 1..(c - 1) : Ch(u, k) \in SchemeChars
  THEN c ELSE 0

\* path and query of r, which holds neither scheme, netloc nor fragment
SplitQuery(scheme, netloc, fragment, r, q) ==
  [scheme |-> scheme, netloc |-> netloc, path |-> SubSeq(r, 1, q - 1),
   query |-> SubSeq(r, q + 1, Len(r)), fragment |-> fragment]

\* r holds neither scheme nor netloc; h: the position of its "#"
SplitFragment(scheme, netloc, r, h) ==
  SplitQuery(scheme, netloc, SubSeq(r, h + 1, Len(r)), SubSeq(r, 1, h - 1),
             FirstDelim(SubSeq(r, 1, h - 1), 1, {"?"}))

\* r: the url after "//"; e: the position after its netloc
SplitNetloc(scheme, r, e) ==
  SplitFragment(scheme, SubSeq(r, 1, e - 1), SubSeq(r, e, Len(r)),
                FirstDelim(SubSeq(r, e, Len(r)), 1, {"#"}))

\* r: the url after its scheme
AfterScheme(scheme, r) ==
  IF StartsWith(r, "//")
  THEN SplitNetloc(scheme, SubSeq(r, 3, Len(r)),
                   FirstDelim(SubSeq(r, 3, Len(r)), 1, {"/", "?", "#"}))
  ELSE SplitFragment(scheme, "", r, FirstDelim(r, 1, {"#"}))

\* c: SchemeEnd of u
SplitScheme(u, c) ==
  IF c = 0 THEN AfterScheme("", u)
  ELSE AfterScheme(StrLower(SubSeq(u, 1, c - 1)), SubSeq(u, c + 1, Len(u)))

urlparse(u) == SplitScheme(u, SchemeEnd(u, FindFrom(u, ":", 1)))

urlunparse(scheme, netloc, path, query, fragment) ==
  (IF scheme # "" THEN scheme \o ":" ELSE "")
  \o (IF netloc # "" THEN "//" \o netloc ELSE "")
  \o (IF netloc # "" /\ path # "" /\ Ch(path, 1) # "/" THEN "/" ELSE "")
  \o path
  \o (IF query # "" THEN "?" \o query ELSE "")
  \o (IF fragment # "" THEN "#" \o fragment ELSE "")

\* the directory of a base path: up to and including its last "/"
BaseDir(path) ==
  LET slashes == { j \in 1..Len(path) : Ch(path, j) = "/" }
  IN IF slashes = {} THEN "" ELSE SubSeq(path, 1, SetMax(slashes))

\* urljoin for the parsed base b and the parsed href u
JoinParsed(b, u, href, scheme) ==
  IF scheme # b.scheme \/ scheme \notin uses_relative THEN href
  ELSE IF u.netloc # ""
  THEN urlunparse(scheme, u.netloc, u.path, u.query, u.fragment)
  ELSE IF u.path = ""
  THEN urlunparse(scheme, b.netloc, b.path,
                  IF u.query = "" THEN b.query ELSE u.query, u.fragment)
  ELSE IF Ch(u.path, 1) = "/"
  THEN urlunparse(scheme, b.netloc, u.path, u.query, u.fragment)
  ELSE urlunparse(scheme, b.netloc, BaseDir(b.path) \o u.path,
                  u.query, u.fragment)

\* the scheme of the joined url
JoinScheme(b, u) == IF u.scheme = "" THEN b.scheme ELSE u.scheme

urljoin(base, href) ==
  IF href = "" THEN base
  ELSE JoinParsed(urlparse(base), urlparse(href), href,
                  JoinScheme(urlparse(base), urlparse(href)))

(***************************************************************************)
(* EmailScraper.find_all_internal_links; hrefs: the href values of the     *)
(* anchors of the parsed page                                              *)
(***************************************************************************)

\* full_url.split('#')[0].split('?')[0]
CleanUrl(full_url) == SplitFirst(SplitFirst(full_url, "#"), "?")

\* variant: links to any domain are kept
AnyDomain(full_url, base_domain) == TRUE

\* the condition of line 33
SameDomain(full_url, base_domain) == urlparse(full_url).netloc = base_domain

find_all_internal_links(page_url, hrefs) ==
  LET base_domain == urlparse(page_url).netloc
  IN { CleanUrl(urljoin(page_url, hrefs[k])) :
         k \in { j \in 1..Len(hrefs) :
                   SameDomain(urljoin(page_url, hrefs[j]), base_domain) } }

(***************************************************************************)
(* EmailScraper.prioritize_urls                                            *)
(***************************************************************************)

priority_keywords ==
  {"contact", "career", "careers", "jobs", "join", "team",
   "about", "hiring", "recruit", "work", "opportunity",
   "hr", "human-resources", "employment", "apply"}

\* the condition of line 121
IsPriorityUrl(u) ==
  \E keyword \in priority_keywords : Contains(StrLower(u), keyword)

(***************************************************************************)
(* EmailScraper.scrape_single_page.  A fetched page is given as what the   *)
(* HTTP client and the HTML parser hand to the method:                     *)
(*   html        response.text after html.unescape                         *)
(*   text        soup.get_text(separator=' ', strip=True)                  *)
(*   hrefs       the href values of the <a href> elements, in order        *)
(*   data_emails the data-email attribute values                           *)
(*   scripts     the .string of the <script> elements                      *)
(*   metas       the content values of the <meta> elements                 *)
(***************************************************************************)

ObfLocal == RPlus(RSet(Alnum \cup {".", "_", "-"}))
ObfDomain == RPlus(RSet(Alnum \cup {".", "-"}))
ObfTld == RCat(<<RSet(Alpha), RSet(Alpha), RStar(RSet(Alpha))>>)
Spaces == RStar(RSet(Whitespace))

\* the two patterns of lines 186-187
obfuscated_patterns ==
  <<RCat(<<RGroup(ObfLocal), Spaces,
           RAlt(<<RStr("[at]"), RStr("(at)")>>), Spaces,
           RGroup(ObfDomain), Spaces,
           RAlt(<<RStr("[dot]"), RStr("(dot)")>>), Spaces,
           RGroup(ObfTld)>>),
    RCat(<<RGroup(ObfLocal), Spaces,
           ROpt(RLit("[")), ROpt(RLit("(")), RStr("at"),
           ROpt(RLit(")")), ROpt(RLit("]")), Spaces,
           RGroup(ObfDomain), Spaces,
           ROpt(RLit("[")), ROpt(RLit("(")), RStr("dot"),
           ROpt(RLit(")")), ROpt(RLit("]")), Spaces,
           RGroup(ObfTld)>>)>>

UnionOver(f) == UNION { f[k] : k \in DOMAIN f }

\* Method 1, line 146
HtmlEmails(page) == extract_emails_from_text(page.html)

\* Method 2, lines 149-150
TextEmails(page) == extract_emails_from_text(page.text)

\* variant: the address of a mailto link is added as it stands
MailtoUnchecked(href) ==
  IF Contains(StrLower(href), "mailto:")
  THEN {SplitFirst(SplitFirst(StrReplace(StrLower(href), "mailto:", ""), "?"),
                   "&")}
  ELSE {}

\* Method 3, lines 153-159, for one href
MailtoEmails(href) ==
  IF Contains(StrLower(href), "mailto:")
  THEN extract_emails_from_text(
         SplitFirst(SplitFirst(StrReplace(StrLower(href), "mailto:", ""), "?"),
                    "&"))
  ELSE {}

\* Method 4, lines 162-165, for one attribute value
DataEmails(email_data) == extract_emails_from_text(email_data)

\* Method 5, lines 168-175, for one script body
ScriptEmails(script_text) ==
  IF Contains(script_text, "@")
  THEN extract_emails_from_text(
         StrReplace(StrReplace(script_text, "\\u0040", "@"), "\\x40", "@"))
  ELSE {}

\* Method 6, lines 178-182, for one content value
MetaEmails(content) ==
  IF Contains(content, "@") THEN extract_emails_from_text(content) ELSE {}

\* variant: the address is built without the dot before the tld
ObfuscatedWithoutDot(pattern, decoded_html) ==
  LET matches == FindAllGroups(pattern, decoded_html, TRUE)
  IN UNION { extract_emails_from_text(
               StrStrip(matches[k][1]) \o "@" \o StrStrip(matches[k][2])
               \o StrStrip(matches[k][3])) : k \in DOMAIN matches }

\* Method 7, lines 190-195, for one pattern
ObfuscatedEmails(pattern, decoded_html) ==
  LET matches == FindAllGroups(pattern, decoded_html, TRUE)
  IN UNION { extract_emails_from_text(
               StrStrip(matches[k][1]) \o "@" \o StrStrip(matches[k][2])
               \o "." \o StrStrip(matches[k][3])) : k \in DOMAIN matches }

\* the emails set when the try block has run through Method 7
page_emails(page) ==
  HtmlEmails(page) \cup TextEmails(page)
  \cup UnionOver([k \in DOMAIN page.hrefs |-> MailtoEmails(page.hrefs[k])])
  \cup UnionOver([k \in DOMAIN page.data_emails |->
                    DataEmails(page.data_emails[k])])
  \cup UnionOver([k \in DOMAIN page.scripts |-> ScriptEmails(page.scripts[k])])
  \cup UnionOver([k \in DOMAIN page.metas |-> MetaEmails(page.metas[k])])
  \cup UnionOver([k \in DOMAIN obfuscated_patterns |->
                    ObfuscatedEmails(obfuscated_patterns[k], page.html)])

\* urlsplit raises ValueError("Invalid IPv6 URL") for a netloc with one bracket
InvalidNetloc(u) ==
  LET n == urlparse(u).netloc IN Contains(n, "[") # Contains(n, "]")

\* find_all_internal_links raises: some urljoin / urlparse of the loop does
LinksRaise(page_url, hrefs) ==
  \E k \in DOMAIN hrefs :
    InvalidNetloc(hrefs[k]) \/ InvalidNetloc(urljoin(page_url, hrefs[k]))

\* the links set at line 203: line 198 assigns it unless it raises
page_links(page_url, page) ==
  IF LinksRaise(page_url, page.hrefs) THEN {}
  ELSE find_all_internal_links(page_url, page.hrefs)

(***************************************************************************)
(* The pages a site may serve.  Any URL may serve any of them at any       *)
(* fetch, so the link graph and the place of the emails are arbitrary.     *)
(***************************************************************************)

NoSignals ==
  [html |-> "", text |-> "", hrefs |-> << >>, data_emails |-> << >>,
   scripts |-> << >>, metas |-> << >>]

Pages ==
  << \* navigation, no address; one link leaves the site
     [NoSignals EXCEPT
        !.html = "<a href='/jobs'><a href='/about#team'><a href='/x'><a href='http://hr.co/contact'>",
        !.hrefs = <<"/jobs", "/about#team", "/x", "http://hr.co/contact">>],
     \* navigation and a contact address in the text
     [NoSignals EXCEPT
        !.html = "<a href='/y?id=1'><a href='/z'><a href='//hr.co/hr'><a href='#top'><a href='p'>Info@a.co",
        !.text = "Info@a.co",
        !.hrefs = <<"/y?id=1", "/z", "//hr.co/hr", "#top", "p">>],
     \* a mailto link with a career address
     [NoSignals EXCEPT
        !.html = "<a href=\"MAILTO:Jobs@a.co?subject=hi\"><a href=\"/w\"><a href=\"/\">",
        !.hrefs = <<"MAILTO:Jobs@a.co?subject=hi", "/w", "/">>],
     \* candidates that the extractor must drop, one per signal source
     [NoSignals EXCEPT
        !.html = "<a href=\"mailto:donotreply@a.co\"><i data-email=\"noreply@a.co\"><meta content=\"bob@test.com\"><script>m=\"x\\u0040a.co\"</script>spam [at] example [dot] com +1@a.co",
        !.text = "spam [at] example [dot] com +1@a.co",
        !.hrefs = <<"mailto:donotreply@a.co">>,
        !.data_emails = <<"noreply@a.co">>,
        !.scripts = <<"m=\"x\\u0040a.co\"">>,
        !.metas = <<"bob@test.com">>],
     \* an obfuscated address
     [NoSignals EXCEPT
        !.html = "bob (at) a (dot) co<a href='/z'>",
        !.text = "bob (at) a (dot) co",
        !.hrefs = <<"/z">>],
     \* addresses in a script body, one with an escaped @
     [NoSignals EXCEPT
        !.html = "<script>a=\"info\\x40a.co\";b=\"bob@a.co\"</script>",
        !.scripts = <<"a=\"info\\x40a.co\";b=\"bob@a.co\"">>],
     \* an address and an href that urljoin rejects
     [NoSignals EXCEPT
        !.html = "bob@a.co<a href='/w'><a href='http://[x/'>",
        !.text = "bob@a.co",
        !.hrefs = <<"/w", "http://[x/">>] >>

PageIds == DOMAIN Pages

(***************************************************************************)
(* The crawl of one site, EmailScraper.scrape_website_deep, and the        *)
(* driver loop that calls it once per site on one scraper                  *)
(***************************************************************************)

\* the largest max_pages a driver passes
MaxBudget == 6
\* the number of sites a driver crawls on one scraper
MaxJobs == 2
\* the seed URLs a driver may pass; the host of the second one holds a
\* keyword of priority_keywords, urlparse rejects the last one
Seeds == {"http://a.co/", "http://hr.co", "http://[x/"}
\* the company_name arguments: "" stands for None and for any falsy name
\* (scrape_emails_from_url_list passes none, line 352)
CompanyNames == {"", "Acme"}

\* every URL a crawl from a seed can meet
RECURSIVE UrlClosure(_)
UrlClosure(known) ==
  LET more == known \cup UNION { page_links(su, Pages[p]) :
                                   su \in known, p \in PageIds }
  IN IF more = known THEN known ELSE UrlClosure(more)
SiteURLs == UrlClosure(Seeds)

\* page_emails and page_links for every page and URL of the site
emails_of == [p \in PageIds |-> page_emails(Pages[p])]
links_of == [su \in SiteURLs, p \in PageIds |-> page_links(su, Pages[p])]

\* variant: raise_for_status is not called, the body of an error response
\* (here page 2) is scraped like any page
ScrapeErrorBody(page_url, fetch) ==
  IF fetch = 0 THEN [emails |-> emails_of[2], links |-> links_of[page_url, 2]]
  ELSE [emails |-> emails_of[fetch], links |-> links_of[page_url, fetch]]

\* (emails, links) of lines 129-203; fetch = 0: client.get or raise_for_status
\* raises, fetch = p: the response is page p
scrape_single_page(page_url, fetch) ==
  IF fetch = 0 THEN [emails |-> {}, links |-> {}]
  ELSE [emails |-> emails_of[fetch], links |-> links_of[page_url, fetch]]

\* IsPriorityUrl, the netloc and InvalidNetloc for every URL of the site
is_priority == [su \in SiteURLs |-> IsPriorityUrl(su)]
netloc_of == [su \in SiteURLs |-> urlparse(su).netloc]
invalid_netloc == [su \in SiteURLs |-> InvalidNetloc(su)]

\* what client.get of line 135 can give for a URL: no host can be taken from
\* a URL whose netloc is invalid, so its fetch fails
Responses(page_url) ==
  IF invalid_netloc[page_url] THEN {0} ELSE {0} \cup PageIds

\* variant: no url goes first
AnyUrlFirst(to_visit_) == to_visit_

\* the urls that prioritized[0] of lines 230-231 can be: the list is
\* priority_urls + other_urls, each in the iteration order of a set, which is
\* arbitrary
NextUrls(to_visit_) ==
  LET priority_urls == { u \in to_visit_ : is_priority[u] }
  IN IF priority_urls # {} THEN priority_urls ELSE to_visit_ \ priority_urls

\* variant: the page budget is not tested
FrontierOnly(to_visit_, pages_scraped_, max_pages) == to_visit_ # {}

\* the loop condition of line 228
LoopCondition(to_visit_, pages_scraped_, max_pages) ==
  to_visit_ # {} /\ pages_scraped_ < max_pages

\* variant: every link of the page is queued
NewLinksUnfiltered(links, visited, to_visit_) == links

\* variant: the visited urls are not taken out
NewLinksNotVisitedKept(links, visited, to_visit_) == links \ to_visit_

\* line 246
NewLinks(links, visited, to_visit_) == (links \ visited) \ to_visit_

\* variant: only the pages that were fetched are counted
CountFetched(pages_scraped_, fetch) ==
  IF fetch = 0 THEN pages_scraped_ ELSE pages_scraped_ + 1

\* line 238: the page is counted before it is fetched, whatever fetch gives
CountPage(pages_scraped_, fetch) == pages_scraped_ + 1

EarlyStopPages == 5

\* variant: the page count is not tested
EarlyStopAnyPage(emails_, pages_scraped_) == emails_ # {}

\* the condition of line 250
EarlyStop(emails_, pages_scraped_) ==
  emails_ # {} /\ pages_scraped_ >= EarlyStopPages

career_keywords ==
  {"career", "careers", "job", "jobs", "recruit", "hr", "human", "talent",
   "hiring"}
contact_keywords == {"contact", "info", "hello", "support", "help"}

HasKeyword(email, keywords) ==
  \E kw \in keywords : Contains(StrLower(email), kw)

\* the conditions of lines 255 and 260 for every address a page can yield
PageEmails == UNION { emails_of[p] : p \in PageIds }
is_career == [email \in PageEmails |-> HasKeyword(email, career_keywords)]
is_contact == [email \in PageEmails |-> HasKeyword(email, contact_keywords)]

\* variant: career and contact addresses are returned together
FinalEmailsBothTiers(all_emails_) ==
  LET chosen == { email \in all_emails_ :
                    is_career[email] \/ is_contact[email] }
  IN IF chosen # {} THEN chosen ELSE all_emails_

\* final_emails of lines 254-263, as a set: the order of the list is the
\* iteration order of a set
FinalEmails(all_emails_) ==
  LET career_emails ==
        { email \in all_emails_ : is_career[email] }
      contact_emails ==
        { email \in all_emails_ : is_contact[email] }
      chosen == IF career_emails # {} THEN career_emails ELSE contact_emails
  IN IF chosen # {} THEN chosen ELSE all_emails_

\* urlparse(url) of line 271 raises
ReturnRaises(company_name_, url_) == company_name_ = "" /\ invalid_netloc[url_]

NoResult ==
  [company_name |-> "", url |-> "", emails |-> {}, pages_scraped |-> 0]

VARIABLES
  max_pages_per_site,  \* self.max_pages_per_site
  visited_urls,        \* self.visited_urls
  url,                 \* the seed of the running job
  company_name,        \* the company_name argument of the running job
  all_emails,          \* the local all_emails
  emails,              \* the local emails: those of the last page scraped
  to_visit,            \* the local to_visit
  pages_scraped,       \* the local pages_scraped
  pc,                  \* "idle", "loop" (at the while test), "fetching"
                       \* (awaiting client.get), "exited" (after the loop),
                       \* "returned", "delayed" (the sleep of the driver is
                       \* over), "raised" (an exception has left
                       \* scrape_website_deep)
  in_flight,           \* the URLs given to client.get whose fetch has not
                       \* ended
  result,              \* the dict returned by the last job
  jobs,                \* the number of jobs the driver has started
  fetch_ok,            \* history: whether the last client.get returned a page
  first_found,         \* history: pages_scraped when all_emails first became
                       \* non-empty, 0 before
  same_seed,           \* history: whether the job before the running one
                       \* had the same seed
  text,                \* the argument of extract_emails_from_text
  clean_emails,        \* its return value
  xpc                  \* "call" before, "done" after the extraction;
                       \* "page" before the collection from a page

crawl_vars ==
  <<max_pages_per_site, visited_urls, url, company_name, all_emails, emails,
    to_visit, pages_scraped, pc, in_flight, result, jobs, fetch_ok,
    first_found, same_seed>>
extract_vars == <<text, clean_emails, xpc>>
vars == <<crawl_vars, extract_vars>>

\* EmailScraper() and scraper.max_pages_per_site = max_pages (lines 19-21,
\* 293-294)
Init ==
  /\ max_pages_per_site \in 0..MaxBudget
  /\ visited_urls = {}
  /\ url = ""
  /\ company_name = ""
  /\ all_emails = {}
  /\ emails = {}
  /\ to_visit = {}
  /\ pages_scraped = 0
  /\ pc = "idle"
  /\ in_flight = {}
  /\ result = NoResult
  /\ jobs = 0
  /\ fetch_ok = TRUE
  /\ first_found = 0
  /\ same_seed = FALSE
  /\ text = ""
  /\ clean_emails = {}
  /\ xpc = "done"

\* variant: the driver starts the crawls together, as asyncio.gather would
DriverReadyAnyTime(pc_) == pc_ # "raised"

\* the driver is at the call of line 306 (352): before the first site, or
\* after the sleep that follows the previous one
DriverReady(pc_) == pc_ \in {"idle", "delayed"}

\* variant: self.visited_urls is not reset at the start of a job
StartJobKeepsVisited(seed, name) ==
  /\ DriverReady(pc)
  /\ jobs < MaxJobs
  /\ jobs' = jobs + 1
  /\ url' = seed
  /\ company_name' = name
  /\ all_emails' = {}
  /\ emails' = {}
  /\ to_visit' = {seed}
  /\ pages_scraped' = 0
  /\ pc' = "loop"
  /\ result' = NoResult
  /\ fetch_ok' = TRUE
  /\ first_found' = 0
  /\ same_seed' = (jobs > 0 /\ seed = url)
  /\ UNCHANGED <<max_pages_per_site, visited_urls, in_flight, extract_vars>>

\* the driver calls scrape_website_deep(seed, name): lines 218-221
StartJob(seed, name) ==
  /\ DriverReady(pc)
  /\ jobs < MaxJobs
  /\ jobs' = jobs + 1
  /\ url' = seed
  /\ company_name' = name
  /\ visited_urls' = {}
  /\ all_emails' = {}
  /\ emails' = {}
  /\ to_visit' = {seed}
  /\ pages_scraped' = 0
  /\ pc' = "loop"
  /\ result' = NoResult
  /\ fetch_ok' = TRUE
  /\ first_found' = 0
  /\ same_seed' = (jobs > 0 /\ seed = url)
  /\ UNCHANGED <<max_pages_per_site, in_flight, extract_vars>>

\* one iteration of the while loop, lines 228-251
Iterate(current_url, fetch) ==
  /\ pc = "loop"
  /\ LoopCondition(to_visit, pages_scraped, max_pages_per_site)
  /\ current_url \in NextUrls(to_visit)
  /\ fetch \in Responses(current_url)
  /\ IF current_url \in visited_urls
     THEN /\ to_visit' = to_visit \ {current_url}
          /\ UNCHANGED <<visited_urls, pages_scraped, all_emails, emails, pc,
                         fetch_ok, first_found>>
     ELSE LET page == scrape_single_page(current_url, fetch)
              visited == visited_urls \cup {current_url}
              rest == to_visit \ {current_url}
          IN /\ visited_urls' = visited
             /\ pages_scraped' = CountPage(pages_scraped, fetch)
             /\ fetch_ok' = (fetch # 0)
             /\ emails' = page.emails
             /\ all_emails' = all_emails \cup page.emails
             /\ first_found' = IF all_emails = {} /\ page.emails # {}
                               THEN CountPage(pages_scraped, fetch)
                               ELSE first_found
             /\ to_visit' = rest \cup NewLinks(page.links, visited, rest)
             /\ pc' = IF EarlyStop(page.emails, CountPage(pages_scraped, fetch))
                      THEN "exited" ELSE "loop"
  /\ UNCHANGED <<max_pages_per_site, url, company_name, in_flight, result,
                 jobs, same_seed, extract_vars>>

\* the while test of line 228 fails
LoopExit ==
  /\ pc = "loop"
  /\ ~ LoopCondition(to_visit, pages_scraped, max_pages_per_site)
  /\ pc' = "exited"
  /\ UNCHANGED <<max_pages_per_site, visited_urls, url, company_name,
                 all_emails, emails, to_visit, pages_scraped, in_flight, result,
                 jobs, fetch_ok, first_found, same_seed, extract_vars>>

\* lines 253-275: the dict is returned, or the urlparse of line 271 raises
\* and the exception leaves scrape_website_deep and the driver, which has no
\* try around the call
Return ==
  /\ pc = "exited"
  /\ IF ReturnRaises(company_name, url)
     THEN /\ pc' = "raised"
          /\ UNCHANGED result
     ELSE /\ result' = [company_name |->
                          IF company_name # "" THEN company_name
                          ELSE netloc_of[url],
                        url |-> url,
                        emails |-> FinalEmails(all_emails),
                        pages_scraped |-> pages_scraped]
          /\ pc' = "returned"
  /\ UNCHANGED <<max_pages_per_site, visited_urls, url, company_name,
                 all_emails, emails, to_visit, pages_scraped, in_flight, jobs,
                 fetch_ok, first_found, same_seed, extract_vars>>

\* the driver stores the emails of the result and sleeps (lines 308-315,
\* 354-360)
Delay ==
  /\ pc = "returned"
  /\ pc' = "delayed"
  /\ UNCHANGED <<max_pages_per_site, visited_urls, url, company_name,
                 all_emails, emails, to_visit, pages_scraped, in_flight, result,
                 jobs, fetch_ok, first_found, same_seed, extract_vars>>

Next ==
  \/ \E seed \in Seeds, name \in CompanyNames : StartJob(seed, name)
  \/ \E current_url \in to_visit, fetch \in {0} \cup PageIds :
       Iterate(current_url, fetch)
  \/ LoopExit
  \/ Return
  \/ Delay

Spec == Init /\ [][Next]_vars

\* a job that has started runs on: every await of the coroutine returns (a
\* fetch ends after the 20 s timeout of line 135 at the latest) and the event
\* loop resumes it
FairSpec ==
  /\ Spec
  /\ WF_vars(\E current_url \in to_visit, fetch \in {0} \cup PageIds :
               Iterate(current_url, fetch))
  /\ WF_vars(LoopExit)
  /\ WF_vars(Return)

\* The same crawl with the iteration of the loop cut at its await of
\* client.get: Select is lines 228-238 and the call of line 135, Collect is
\* what follows the answer, lines 135-203 and 243-251

Select(current_url) ==
  /\ pc = "loop"
  /\ LoopCondition(to_visit, pages_scraped, max_pages_per_site)
  /\ current_url \in NextUrls(to_visit)
  /\ to_visit' = to_visit \ {current_url}
  /\ IF current_url \in visited_urls
     THEN UNCHANGED <<visited_urls, pages_scraped, in_flight, pc>>
     ELSE /\ visited_urls' = visited_urls \cup {current_url}
          /\ pages_scraped' = CountPage(pages_scraped, 0)
          /\ in_flight' = in_flight \cup {current_url}
          /\ pc' = "fetching"
  /\ UNCHANGED <<max_pages_per_site, url, company_name, all_emails, emails,
                 result, jobs, fetch_ok, first_found, same_seed, extract_vars>>

Collect(current_url, fetch) ==
  /\ pc = "fetching"
  /\ current_url \in in_flight
  /\ fetch \in Responses(current_url)
  /\ LET page == scrape_single_page(current_url, fetch)
     IN /\ in_flight' = in_flight \ {current_url}
        /\ fetch_ok' = (fetch # 0)
        /\ emails' = page.emails
        /\ all_emails' = all_emails \cup page.emails
        /\ first_found' = IF all_emails = {} /\ page.emails # {}
                          THEN pages_scraped ELSE first_found
        /\ to_visit' = to_visit \cup NewLinks(page.links, visited_urls, to_visit)
        /\ pc' = IF EarlyStop(page.emails, pages_scraped)
                 THEN "exited" ELSE "loop"
  /\ UNCHANGED <<max_pages_per_site, visited_urls, url, company_name,
                 pages_scraped, result, jobs, same_seed, extract_vars>>

NextSteps ==
  \/ \E seed \in Seeds, name \in CompanyNames : StartJob(seed, name)
  \/ \E current_url \in to_visit : Select(current_url)
  \/ \E current_url \in in_flight, fetch \in {0} \cup PageIds :
       Collect(current_url, fetch)
  \/ LoopExit
  \/ Return
  \/ Delay

SpecSteps == Init /\ [][NextSteps]_vars

(***************************************************************************)
(* extract_emails_from_text on its own: one call on a text drawn from      *)
(* Texts                                                                   *)
(***************************************************************************)

\* w repeated n times
RECURSIVE Repeat(_, _)
Repeat(w, n) ==
  IF n = 0 THEN ""
  ELSE IF n = 1 THEN w
  ELSE Repeat(w, n \div 2) \o Repeat(w, n - n \div 2)

Prefixes == {"", "mail: ", "<"}
Suffixes == {"", ".", " x", "\n"}
Locals ==
  {"bob", "Jobs", "a", "noreply", "NoReply", "no-reply", "donotreply.x", "+1",
   "x!y", "a.b_c-d", "\"q\""}
Domains ==
  {"a.co", "A.Co", "b.c", "example.com", "mail.test.com", "sentry.io",
   "[1.2.3.4]", "localhost", "x-y.io"}

\* a domain of n characters, n = 5k + 2
LongDomain(n) == Repeat(Repeat("d", (n - 2) \div 5 - 1) \o ".", 5) \o "co"

\* addresses at the length limits of lines 61 and 71
BoundaryTexts ==
  { Repeat("x", n) \o "@a.co" : n \in {MaxLocalLen, MaxLocalLen + 1} }
  \cup { Repeat("b", n) \o "@" \o LongDomain(MaxEmailLen - 2) : n \in {1, 2} }

Texts ==
  { pre \o loc \o "@" \o dom \o post :
      pre \in Prefixes, loc \in Locals, dom \in Domains, post \in Suffixes }
  \cup BoundaryTexts
  \cup {"", "no address", "bob@a.co, Info@b.io\rbob@A.CO", "a@b.c bob@a.co"}

InitExtract ==
  /\ text \in Texts
  /\ clean_emails = {}
  /\ xpc = "call"
  /\ max_pages_per_site = 0
  /\ visited_urls = {}
  /\ url = ""
  /\ company_name = ""
  /\ all_emails = {}
  /\ emails = {}
  /\ to_visit = {}
  /\ pages_scraped = 0
  /\ pc = "idle"
  /\ in_flight = {}
  /\ result = NoResult
  /\ jobs = 0
  /\ fetch_ok = TRUE
  /\ first_found = 0
  /\ same_seed = FALSE

\* the call of extract_emails_from_text(text), lines 40-106
ExtractEmails ==
  /\ xpc = "call"
  /\ clean_emails' = extract_emails_from_text(text)
  /\ xpc' = "done"
  /\ UNCHANGED <<text, crawl_vars>>

NextExtract == ExtractEmails

SpecExtract == InitExtract /\ [][NextExtract]_vars

(***************************************************************************)
(* The collection of lines 139-195 on its own: one page whose content is   *)
(* an obfuscated address, drawn from Fragments                             *)
(***************************************************************************)

ObfLocals ==
  {"jane", "Bob", "a", "at", "dot", "j.d", "x_y-z", "noreply", "k8", "jane+x"}
ObfDomains == {"acme", "a", "mail.acme", "dot", "atlas", "example", "x-y"}
ObfTlds == {"com", "co", "IO", "c"}
AtForms == {"[at]", "(at)"}
DotForms == {"[dot]", "(dot)"}

FragmentParts ==
  [local : ObfLocals, domain : ObfDomains, tld : ObfTlds,
   at : AtForms, dot : DotForms]

\* the content local [at] domain [dot] tld
Fragment(f) ==
  f.local \o " " \o f.at \o " " \o f.domain \o " " \o f.dot \o " " \o f.tld

\* the address the fragment stands for
Address(f) == f.local \o "@" \o f.domain \o "." \o f.tld

Fragments == { Fragment(f) : f \in FragmentParts }

\* the page whose markup and visible text are the given content
TextPage(content) == [NoSignals EXCEPT !.html = content, !.text = content]

InitPage ==
  /\ text \in Fragments
  /\ clean_emails = {}
  /\ xpc = "page"
  /\ max_pages_per_site = 0
  /\ visited_urls = {}
  /\ url = ""
  /\ company_name = ""
  /\ all_emails = {}
  /\ emails = {}
  /\ to_visit = {}
  /\ pages_scraped = 0
  /\ pc = "idle"
  /\ in_flight = {}
  /\ result = NoResult
  /\ jobs = 0
  /\ fetch_ok = TRUE
  /\ first_found = 0
  /\ same_seed = FALSE

\* Methods 1 to 7 on the page, lines 139-195
CollectEmails ==
  /\ xpc = "page"
  /\ clean_emails' = page_emails(TextPage(text))
  /\ xpc' = "done"
  /\ UNCHANGED <<text, crawl_vars>>

NextPage == CollectEmails

SpecPage == InitPage /\ [][NextPage]_vars

(***************************************************************************)
(* The properties checked.  Those about the crawl are checked under Spec,  *)
(* those about extract_emails_from_text alone under SpecExtract.           *)
(***************************************************************************)

\* C1: a job fetches at most max_pages_per_site distinct URLs: in every state
\* pages_scraped and the size of visited_urls are at most the budget, and so
\* is the pages_scraped of the result
C1_BudgetBound ==
  /\ pages_scraped <= max_pages_per_site
  /\ Cardinality(visited_urls) <= max_pages_per_site
  /\ result.pages_scraped <= max_pages_per_site

\* a job that the budget has stopped with URLs still queued
C1_Witness ==
  /\ pc = "returned"
  /\ max_pages_per_site >= 2
  /\ result.pages_scraped = max_pages_per_site
  /\ Cardinality(visited_urls) = max_pages_per_site
  /\ to_visit # {}

\* C2: every URL of the frontier and every URL selected for fetching (the
\* URLs of visited_urls) has the netloc of the seed URL
C2_SameDomainFrontier ==
  pc # "idle" =>
    \A u \in to_visit \cup visited_urls : netloc_of[u] = netloc_of[url]

\* the seed has served page 1, whose hrefs hold a link to hr.co: its internal
\* links are queued
C2_Witness ==
  /\ url = "http://a.co/"
  /\ {"http://a.co/jobs", "http://a.co/x"} \subseteq to_visit
  /\ "http://hr.co/contact" \notin to_visit

\* C3: the frontier and the visited set are disjoint, a URL selected for
\* fetching is not in visited_urls before the step, and the step queues no
\* URL that is already visited
C3_FrontierVisitedDisjoint ==
  /\ [](to_visit \cap visited_urls = {})
  /\ [][pages_scraped' = pages_scraped + 1 =>
          /\ \E u \in to_visit \ visited_urls :
               visited_urls' = visited_urls \cup {u}
          /\ to_visit' \cap visited_urls' = {}]_vars

\* a page has linked back to the seed, which was visited already
C3_Witness ==
  /\ url = "http://a.co/"
  /\ "http://a.co/" \in visited_urls
  /\ "http://a.co/w" \in to_visit

\* C4, as stated: once the aggregated emails are non-empty and at least 5
\* pages have been fetched, no further page is fetched
C4_StopsOnAggregatedEmails ==
  [][(pc = "loop" /\ all_emails # {} /\ pages_scraped >= 5)
       => pages_scraped' = pages_scraped]_vars

\* C5: when the k-th page fetched is the first to yield an email and k >= 5,
\* the loop ends at that page and the result reports pages_scraped = k; and
\* the loop never ends after fewer than 5 pages while the frontier is
\* non-empty and the budget allows
C5_EarlyStopAtFirstEmail ==
  [][/\ (pc = "loop" /\ all_emails = {} /\ all_emails' # {}
           /\ pages_scraped' >= 5)
        => (pc' = "exited" /\ pages_scraped' = pages_scraped + 1)
     /\ (pc = "exited" /\ pc' = "returned")
        => result'.pages_scraped = pages_scraped
     /\ (pc = "loop" /\ pc' = "exited" /\ pages_scraped' < 5)
        => (to_visit' = {} \/ pages_scraped' >= max_pages_per_site)]_vars

\* the fifth page is the first with an email; the loop has ended with URLs
\* queued and budget left
C5_Witness ==
  /\ pc = "exited"
  /\ first_found = 5
  /\ pages_scraped = 5
  /\ to_visit # {}
  /\ pages_scraped < max_pages_per_site

C7_FirstTierWins ==
  pc = "returned" =>
    LET withCareer ==
          { e \in all_emails : \E kw \in career_keywords : Contains(e, kw) }
        withContact ==
          { e \in all_emails : \E kw \in contact_keywords : Contains(e, kw) }
    IN /\ withCareer # {} => result.emails = withCareer
       /\ (withCareer = {} /\ withContact # {}) => result.emails = withContact
       /\ (withCareer = {} /\ withContact = {}) => result.emails = all_emails

\* a career address, a contact address and another one were found: the
\* career address alone is returned
C7_Witness ==
  /\ pc = "returned"
  /\ all_emails = {"jobs@a.co", "info@a.co", "bob@a.co"}
  /\ result.emails = {"jobs@a.co"}

\* C8: every address that extract_emails_from_text returns has 6 to 254
\* characters, a local part of 1 to 64 characters, a domain of at least two
\* labels whose last has at least 2 characters, holds no placeholder domain,
\* does not start with noreply, no-reply or donotreply, matches the final
\* pattern, and is lowercase
C8_OutputsPassRules ==
  xpc = "done" =>
    \A e \in clean_emails :
      /\ Len(e) >= 6 /\ Len(e) <= 254
      /\ Contains(e, "@")
      /\ Len(SplitFirst(e, "@")) >= 1 /\ Len(SplitFirst(e, "@")) <= 64
      /\ Len(StrSplit(SplitRest(e, "@"), ".")) >= 2
      /\ Len(StrSplit(SplitRest(e, "@"), ".")
               [Len(StrSplit(SplitRest(e, "@"), "."))]) >= 2
      /\ \A ex \in exclude_domains : ~ Contains(e, ex)
      /\ \A pre \in {"noreply", "no-reply", "donotreply"} : ~ StartsWith(e, pre)
      /\ ReMatch(final_pattern, e, FALSE)
      /\ StrLower(e) = e

\* an address written with capitals was returned in lowercase
C8_Witness ==
  /\ xpc = "done"
  /\ text = "mail: Jobs@A.Co."
  /\ clean_emails = {"jobs@a.co"}

\* the addresses among the page emails that extract_emails_from_text returns
\* when it is given the address itself
Extracted ==
  { e \in UNION { emails_of[p] : p \in PageIds } :
      e \in extract_emails_from_text(e) }

\* C9: every address of all_emails and of the returned emails is an output
\* of extract_emails_from_text, whichever source of the page it came from
C9_OnlyExtractorOutputs ==
  all_emails \cup result.emails \subseteq Extracted

\* addresses from a mailto link and from an obfuscated text, a script body or
\* the visible text were aggregated
C9_Witness ==
  /\ pc = "loop"
  /\ all_emails = {"jobs@a.co", "bob@a.co"}

\* C10: a step that fetches a page while the frontier holds a priority URL
\* fetches a priority URL
C10_PriorityFirst ==
  [][(pages_scraped' = pages_scraped + 1
        /\ \E u \in to_visit : is_priority[u])
       => /\ visited_urls' # visited_urls
          /\ \A u \in visited_urls' \ visited_urls : is_priority[u]]_vars

\* a priority URL was fetched while a URL without keyword stayed queued
C10_Witness ==
  /\ url = "http://a.co/"
  /\ visited_urls = {"http://a.co/", "http://a.co/jobs"}
  /\ "http://a.co/x" \in to_visit

\* C11: a fetch that fails adds no email and no link: the step leaves
\* all_emails as it was, takes the selected URL out of the frontier and adds
\* nothing to it, and the job is not aborted: the loop is back at its test
\* with no result written, and while the frontier is non-empty and the budget
\* allows the next iteration can run
C11_TransportFailureIsEmptyPage ==
  /\ [][(pc = "loop" /\ visited_urls' # visited_urls /\ ~ fetch_ok')
          => /\ all_emails' = all_emails
             /\ emails' = {}
             /\ \E u \in to_visit :
                  /\ visited_urls' = visited_urls \cup {u}
                  /\ to_visit' = to_visit \ {u}
             /\ pages_scraped' = pages_scraped + 1
             /\ pc' = "loop"
             /\ result' = result]_vars
  /\ []((pc = "loop" /\ ~ fetch_ok
          /\ LoopCondition(to_visit, pages_scraped, max_pages_per_site))
         => ENABLED (\E current_url \in to_visit, fetch \in {0} \cup PageIds :
                      Iterate(current_url, fetch)))

\* the fetch of a page other than the seed has just failed: the addresses
\* found before are kept, URLs are queued and the budget is not used up
C11_Witness ==
  /\ pc = "loop"
  /\ ~ fetch_ok
  /\ pages_scraped >= 2
  /\ all_emails = {"info@a.co"}
  /\ to_visit # {}
  /\ pages_scraped < max_pages_per_site

\* C12, as stated: every job that has started ends by returning a result, and
\* no exception leaves scrape_website_deep
C12_AlwaysReturnsResult ==
  /\ [](pc # "raised")
  /\ (pc = "loop" ~> pc = "returned")

\* C13: at most one fetch is in flight; a URL is selected, and a result is
\* returned, only when no fetch is in flight, that is after the page of the
\* URL selected before has been collected, merged and its links queued; and a
\* job starts only before the first site or after the job before it has
\* returned and the delay of the driver is over, with no fetch in flight
C13_OneFetchOneJob ==
  /\ [](Cardinality(in_flight) <= 1)
  /\ [](in_flight # {} <=> pc = "fetching")
  /\ [][/\ visited_urls' \ visited_urls # {} => in_flight = {}
        /\ jobs' = jobs + 1 =>
             /\ in_flight = {}
             /\ pc = "idle" \/ (pc = "delayed" /\ result.url = url)]_vars

\* the second job of a driver has its first fetch in flight
C13_Witness ==
  /\ jobs = 2
  /\ pc = "fetching"
  /\ in_flight = {url}
  /\ url = "http://hr.co"

\* C14: when local, domain and tld make an address that
\* extract_emails_from_text accepts, the emails collected from a page whose
\* content is local [at] domain [dot] tld, with [at] or (at) and [dot] or
\* (dot), are that address in lowercase and nothing else
C14_ObfuscatedDecoded ==
  xpc = "done" =>
    \A f \in FragmentParts :
      (text = Fragment(f)
         /\ extract_emails_from_text(Address(f)) = {StrLower(Address(f))})
        => clean_emails = {StrLower(Address(f))}

\* an obfuscated address with a capital and a (dot) was decoded
C14_Witness ==
  /\ xpc = "done"
  /\ text = "Bob [at] mail.acme (dot) IO"
  /\ clean_emails = {"bob@mail.acme.io"}

\* the texts that hold the addresses of a set, in any order, one whitespace
\* character between two of them
RECURSIVE Serialized(_)
Serialized(addresses) ==
  IF addresses = {} THEN {""}
  ELSE UNION { IF addresses = {e} THEN {e}
               ELSE { e \o sep \o more :
                        sep \in {" ", "\n"},
                        more \in Serialized(addresses \ {e}) } :
               e \in addresses }

\* C15: extracting from the returned addresses written back as text returns
\* the same set, and the call changes nothing but its return value
C15_ExtractIdempotent ==
  /\ [](xpc = "done" =>
          \A again \in Serialized(clean_emails) :
            extract_emails_from_text(again) = clean_emails)
  /\ [][xpc' = "done" => UNCHANGED <<text, crawl_vars>>]_vars

\* two addresses, one written with capitals, came out of one text
C15_Witness ==
  /\ xpc = "done"
  /\ text = "bob@a.co, Info@b.io\rbob@A.CO"
  /\ clean_emails = {"bob@a.co", "info@b.io"}

\* the keywords the claim lists, and whether the path or the query of a URL
\* of the site holds one of them
ClaimedKeywords == priority_keywords \cup {"job"}
keyword_in_path ==
  [su \in SiteURLs |->
     \E kw \in ClaimedKeywords :
       \/ Contains(StrLower(urlparse(su).path), kw)
       \/ Contains(StrLower(urlparse(su).query), kw)]

\* C16, as stated: a URL of the frontier is in the priority group if and only
\* if its path or its query holds one of the keywords; scheme and host name
\* do not count
C16_PathOrQueryDecides ==
  \A u \in to_visit : is_priority[u] <=> keyword_in_path[u]

\* whether find_all_internal_links raises on page p served at a URL of the site
links_raise ==
  [su \in SiteURLs, p \in PageIds |-> LinksRaise(su, Pages[p].hrefs)]

\* C17, as stated: an iteration whose page was fetched and whose collection
\* fails (here: the resolution of one of its hrefs raises) adds no email and
\* no link, like a transport failure, and the loop goes on
C17_CollectionFailureIsEmptyPage ==
  [][\A u \in to_visit, p \in PageIds :
       (Iterate(u, p) /\ u \notin visited_urls /\ links_raise[u, p])
         => /\ emails' = {}
            /\ all_emails' = all_emails
            /\ to_visit' = to_visit \ {u}
            /\ pc' = "loop"]_vars

\* the addresses of the script bodies of page p once \u0040 and \x40 are
\* read as @, whether the body holds a literal @ or not
escaped_script_emails ==
  [p \in PageIds |->
     UnionOver([k \in DOMAIN Pages[p].scripts |->
                  extract_emails_from_text(
                    StrReplace(StrReplace(Pages[p].scripts[k], "\\u0040", "@"),
                               "\\x40", "@"))])]

\* C18, as stated: the emails of a fetched page hold every address of its
\* script bodies whose @ is written \u0040 or \x40
C18_EscapedAtDecoded ==
  [][\A u \in to_visit, p \in PageIds :
       (Iterate(u, p) /\ u \notin visited_urls)
         => escaped_script_emails[p] \subseteq emails']_vars

\* C19: pages_scraped is the number of URLs in visited_urls in every state;
\* every iteration of the loop takes a URL that is not visited, adds it to
\* visited_urls and adds one to pages_scraped, whether its fetch succeeds or
\* not, so the branch of lines 234-235 is never taken
C19_CountIsVisited ==
  /\ [](pages_scraped = Cardinality(visited_urls))
  /\ [][(pc = "loop"
          /\ LoopCondition(to_visit, pages_scraped, max_pages_per_site))
         => /\ pages_scraped' = pages_scraped + 1
            /\ \E u \in to_visit \ visited_urls :
                 visited_urls' = visited_urls \cup {u}
            /\ Cardinality(visited_urls') = Cardinality(visited_urls) + 1]_vars

\* three pages were selected, the fetch of the third failed
C19_Witness ==
  /\ pc = "loop"
  /\ ~ fetch_ok
  /\ pages_scraped = 3
  /\ Cardinality(visited_urls) = 3
  /\ to_visit # {}

\* C20: every job starts as on a new scraper, with nothing visited, no
\* address aggregated, a page count of 0, its seed as the only URL queued and
\* the budget unchanged; what an earlier job fetched is not visited for it:
\* only URLs of its own seed's site are, and its first page is its seed, also
\* when the job before had the same seed
C20_JobsIsolated ==
  /\ [][jobs' = jobs + 1 =>
          /\ visited_urls' = {}
          /\ all_emails' = {}
          /\ pages_scraped' = 0
          /\ to_visit' = {url'}
          /\ max_pages_per_site' = max_pages_per_site]_vars
  /\ [][(pc = "loop" /\ pages_scraped = 0 /\ pages_scraped' = 1)
         => visited_urls' = {url}]_vars
  /\ [](pc = "returned" =>
          /\ result.pages_scraped = Cardinality(visited_urls)
          /\ result.emails = FinalEmails(all_emails)
          /\ \A u \in visited_urls : netloc_of[u] = netloc_of[url])

\* the second job has the seed of the first and has fetched it again, and
\* more pages after it
C20_Witness ==
  /\ jobs = 2
  /\ same_seed
  /\ url = "http://a.co/"
  /\ pc = "returned"
  /\ url \in visited_urls
  /\ result.pages_scraped >= 3
  /\ result.emails # {}

====
